---- MODULE Spec2Model ----
(***************************************************************************)
(* Order placement, payment confirmation and delivery of the store         *)
(* backend (routers/orders.py, routers/products.py, middleware/auth.py).   *)
(*                                                                         *)
(* Every request handler is an asyncio coroutine: it runs without          *)
(* interruption between two awaits, and every await on the document store  *)
(* or on the payment provider is a point where other requests may run.     *)
(* Each action below is one such uninterrupted stretch of a handler: the   *)
(* awaited store operation together with the local code that follows it    *)
(* up to the next await.  Money is counted in cents.                       *)
(***************************************************************************)
EXTENDS Integers, Sequences, FiniteSets, TLC

VARIABLES
    orders,     \* the orders collection: order id i is orders[i]
    products,   \* the products collection: product id -> document
    reviews,    \* the reviews collection: review id i is reviews[i]
    slot,       \* the requests being served: slot -> the coroutine's locals
    calls       \* number of requests received so far

vars == <<orders, products, reviews, slot, calls>>

----------------------------------------------------------------------------
(* Bounds of the model *)

MaxOrders == 2      \* orders that may be created
MaxCalls == 4       \* requests received in one behaviour of Spec
MaxPricingCalls == 3 \* requests received in one behaviour of SpecPricing
MaxReviewCalls == 3 \* requests received in one behaviour of SpecReviews

\* the requests served at the same time: a pair of coroutines, which is what
\* the races between two requests need
Req == {1, 2}
OrderIds == 1..MaxOrders            \* ids a client may name (some may not exist)

(* Optional values: None is the empty sequence, Some(x) a one-element one *)
None == <<>>
Some(x) == <<x>>
IsNone(o) == o = <<>>
Get(o) == o[1]

(* Inputs *)
Callers == {"anon", "alice", "root"}        \* no cookie, a customer, an admin
CatalogIds == {"P1"}                        \* products in the catalog
ClientProductIds == CatalogIds \cup {"P9"}  \* P9 resolves to no product
Prices == {1000, 1001}                      \* catalog prices, in cents
PaymentIds == {"", "T1", "T2"}              \* "" : the payload carries no id
Ratings == {1, 5}                           \* ratings a review may give

\* a line item as a client submits it: the product, the quantity and the
\* price the client claims for it
Item(product, qty, price) == [product |-> product, qty |-> qty, price |-> price]

\* the carts a client may submit: empty, of one item (at the catalog's first
\* price or at a price of the client's own), of two items, and one naming an
\* unknown product
PricingCarts ==
    { <<>>,
      <<Item("P1", 2, 1000)>>,
      <<Item("P1", 10, 1)>>,
      <<Item("P1", 2, 1), Item("P1", 10, 1000)>>,
      <<Item("P1", 2, 1000), Item("P9", 10, 1000)>> }

(* A workload: the inputs the requests of a specification are drawn from   *)
Lifecycle ==
    [callers |-> Callers,
     carts |-> {<<>>, <<Item("P1", 2, 1)>>},
     payment_ids |-> PaymentIds,
     prices |-> {None},
     max_calls |-> MaxCalls]

Pricing ==
    [callers |-> {"alice", "root"},
     carts |-> PricingCarts,
     payment_ids |-> {"T1"},
     prices |-> {None} \cup {Some(p) : p \in Prices},
     max_calls |-> MaxPricingCalls]

Reviewing ==
    [callers |-> Callers,
     carts |-> {},
     payment_ids |-> {},
     prices |-> {},
     max_calls |-> MaxReviewCalls]

(* A slot holds the locals of the coroutine serving a request: the inputs  *)
(* the handler still reads (in), where it stands (pc) and, once it has     *)
(* answered, the HTTP status and detail of the response.                   *)
Idle == [op |-> "idle", pc |-> "idle"]
Done(op, in, code, detail) ==
    [op |-> op, pc |-> "done", in |-> in, status |-> code, detail |-> detail]
\* a response that is raised before the handler has used its inputs
Rejected(op, code, detail) == Done(op, [unread |-> TRUE], code, detail)

----------------------------------------------------------------------------
(* middleware/auth.py *)

\* the users collection: is_admin defaults to False (models/user.py)
Users == [alice |-> [is_admin |-> FALSE], root |-> [is_admin |-> TRUE]]

\* get_current_user: the user of the jwt cookie, or 401 (None here)
get_current_user(caller) ==
    IF caller = "anon" THEN None ELSE Some(caller)

\* require_admin with the is_admin check left out
require_admin_unchecked(caller) == get_current_user(caller)

\* require_admin: the current user when it is an admin, or 401 (None here)
require_admin(caller) ==
    LET u == get_current_user(caller)
    IN  IF IsNone(u) THEN None
        ELSE IF ~Users[Get(u)].is_admin THEN None
        ELSE u

\* the detail of the 401 that get_current_user or require_admin raises
unauthorized_detail(caller) ==
    IF IsNone(get_current_user(caller)) THEN "Not authorized, no token"
    ELSE "Not authorized as an admin"

----------------------------------------------------------------------------
(* utils/calc_prices.py, with tax rate 10%, free shipping above 100.00 and  *)
(* a flat shipping fee of 5.00                                              *)

TaxRatePct == 10
FreeShippingThreshold == 10000
FlatShippingFee == 500

\* n / d rounded to the nearest integer, ties to the even one
RoundHalfEven(n, d) ==
    LET q == n \div d
        r == n % d
    IN  IF 2 * r < d THEN q
        ELSE IF 2 * r > d THEN q + 1
        ELSE IF q % 2 = 0 THEN q ELSE q + 1

RECURSIVE SumItems(_)
SumItems(items) ==
    IF items = <<>> THEN 0
    ELSE Head(items).qty * Head(items).price + SumItems(Tail(items))

calc_prices(items) ==
    LET itemsPrice == SumItems(items)
        taxPrice == RoundHalfEven(itemsPrice * TaxRatePct, 100)
        shippingPrice == IF itemsPrice > FreeShippingThreshold THEN 0 ELSE FlatShippingFee
    IN  [itemsPrice |-> itemsPrice,
         taxPrice |-> taxPrice,
         shippingPrice |-> shippingPrice,
         totalPrice |-> itemsPrice + taxPrice + shippingPrice]

----------------------------------------------------------------------------
(* models/order.py: a new Order document, unpaid and undelivered.  The     *)
(* fields that no handler reads or changes after the order is built (user, *)
(* shipping_address, payment_method, the items' names and images) are left *)
(* out.                                                                     *)

Order(order_items, items_price, tax_price, shipping_price, total_price) ==
    [order_items |-> order_items,
     items_price |-> items_price,
     tax_price |-> tax_price,
     shipping_price |-> shipping_price,
     total_price |-> total_price,
     is_paid |-> FALSE,
     paid_at |-> None,
     payment_result |-> None,
     is_delivered |-> FALSE,
     delivered_at |-> None]

\* Order.get(id): the stored document, or None
OrderGet(id) == IF id \in DOMAIN orders THEN Some(orders[id]) ELSE None

\* Document.save() of a loaded document: every field of the in-memory copy is
\* written over the stored document
OrderSave(id, doc) == [orders EXCEPT ![id] = doc]

----------------------------------------------------------------------------
Init ==
    /\ orders = <<>>
    /\ products = [p \in CatalogIds |->
            [price |-> 1000, reviews |-> <<>>, num_reviews |-> 0, rating |-> <<0, 1>>]]
    /\ reviews = <<>>
    /\ slot = [r \in Req |-> Idle]
    /\ calls = 0

\* datetime.utcnow(): the clock moves on with every request received
utcnow == calls

\* a request arrives and is served in the first free slot
Accept(r, w) ==
    /\ slot[r] = Idle
    /\ \A q \in Req : q < r => slot[q] # Idle
    /\ calls < w.max_calls
    /\ calls' = calls + 1

----------------------------------------------------------------------------
(* POST /api/orders : add_order_items *)

\* the creates in flight, each of which will insert one order
Creating == {r \in Req : slot[r].op = "create" /\ slot[r].pc = "save"}

\* db_order_items with the line at fault: the price is the client's
db_order_items_client(cart, db_items_map) ==
    [i \in 1..Len(cart) |->
        [product |-> cart[i].product,
         qty |-> cart[i].qty,
         price |-> cart[i].price]]

\* lines 35-49: the line items of the order, priced from the catalog
db_order_items(cart, db_items_map) ==
    [i \in 1..Len(cart) |->
        [product |-> cart[i].product,
         qty |-> cart[i].qty,
         price |-> db_items_map[cart[i].product].price]]

\* NewOrder with the shipping and the tax amounts in each other's field
NewOrder_swapped(items, prices) ==
    Order(items, prices.itemsPrice, prices.shippingPrice, prices.taxPrice,
          prices.totalPrice)

\* lines 64-78: the Order built from the line items and their prices
NewOrder(items, prices) ==
    Order(items, prices.itemsPrice, prices.taxPrice, prices.shippingPrice,
          prices.totalPrice)

\* authentication, the cart checks, Product.find and the Order built from it
add_order_items_find(r, w) ==
    \E caller \in w.callers, cart \in w.carts :
        LET in == [cart |-> cart]
            user == get_current_user(caller)
            db_items_map == products
            missing == {i \in 1..Len(cart) : cart[i].product \notin DOMAIN db_items_map}
        IN  /\ Accept(r, w)
            /\ Len(orders) + Cardinality(Creating) < MaxOrders
            /\ IF IsNone(user)
               THEN slot' = [slot EXCEPT ![r] = Rejected("create", 401, "Not authorized, no token")]
               ELSE IF Len(cart) = 0
               THEN slot' = [slot EXCEPT ![r] = Rejected("create", 400, "No order items")]
               ELSE IF missing # {}
               THEN slot' = [slot EXCEPT ![r] = Rejected("create", 404, "Product not found")]
               ELSE LET items == db_order_items(cart, db_items_map)
                        prices == calc_prices(items)
                    IN  slot' = [slot EXCEPT ![r] =
                            [op |-> "create", pc |-> "save", in |-> in,
                             order |-> NewOrder(items, prices)]]
            /\ UNCHANGED <<reviews, orders, products>>

\* order.save(): the insert of the new document
add_order_items_save(r) ==
    /\ slot[r].op = "create" /\ slot[r].pc = "save"
    /\ orders' = Append(orders, slot[r].order)
    /\ slot' = [slot EXCEPT ![r] =
            [op |-> "create", pc |-> "done", in |-> slot[r].in, status |-> 201,
             detail |-> "", order_id |-> Len(orders) + 1]]
    /\ UNCHANGED <<reviews, products, calls>>

----------------------------------------------------------------------------
(* PUT /api/orders/{order_id}/pay : update_order_to_paid *)

\* utils/paypal.py check_if_new_transaction: no stored order carries the
\* payment id in its payment_result
check_if_new_transaction(payment_id) ==
    ~ \E i \in DOMAIN orders :
        /\ ~IsNone(orders[i].payment_result)
        /\ Get(orders[i].payment_result).id = payment_id

\* utils/paypal.py verify_paypal_payment: what the provider may answer for an
\* order of the given total: verified or not, with the amount it reports;
\* "raised" is a failed call
ProviderAnswers(total) ==
    [raised : {FALSE}, verified : {TRUE}, value : {total, 1}]
        \cup {[raised |-> FALSE, verified |-> FALSE, value |-> 0],
              [raised |-> TRUE, verified |-> FALSE, value |-> 0]}

\* MarkedPaid without the payment_result
MarkedPaid_noresult(order, payment_id, t) ==
    [order EXCEPT !.is_paid = TRUE, !.paid_at = Some(t)]

\* lines 173-189: the in-memory order marked paid
MarkedPaid(order, payment_id, t) ==
    [order EXCEPT !.is_paid = TRUE,
                  !.paid_at = Some(t),
                  !.payment_result = Some([id |-> payment_id, status |-> "COMPLETED"])]

\* already_paid with the check left out
already_paid_unchecked(order) == FALSE

\* line 146: the loaded order is paid already
already_paid(order) == order.is_paid

\* lines 123-150: authentication, the payment id, Order.get, the is_paid check
update_order_to_paid_load(r, w) ==
    \E caller \in w.callers, order_id \in OrderIds, payment_id \in w.payment_ids :
        LET in == [order_id |-> order_id, payment_id |-> payment_id]
            user == get_current_user(caller)
            order == OrderGet(order_id)
        IN  /\ Accept(r, w)
            /\ IF IsNone(user)
               THEN slot' = [slot EXCEPT ![r] = Rejected("pay", 401, "Not authorized, no token")]
               ELSE IF payment_id = ""
               THEN slot' = [slot EXCEPT ![r] = Done("pay", in, 400, "Payment ID not found")]
               ELSE IF IsNone(order)
               THEN slot' = [slot EXCEPT ![r] = Done("pay", in, 404, "Order not found")]
               ELSE IF already_paid(Get(order))
               THEN slot' = [slot EXCEPT ![r] = Done("pay", in, 400, "Order is already paid")]
               ELSE slot' = [slot EXCEPT ![r] =
                        [op |-> "pay", pc |-> "fresh", in |-> in, order |-> Get(order)]]
            /\ UNCHANGED <<reviews, orders, products>>

\* update_order_to_paid_fresh with the order saved as paid before the guard's
\* answer is looked at
update_order_to_paid_fresh_saved(r) ==
    /\ slot[r].op = "pay" /\ slot[r].pc = "fresh"
    /\ LET is_new == check_if_new_transaction(slot[r].in.payment_id)
       IN  IF ~is_new
           THEN /\ slot' = [slot EXCEPT ![r] =
                        Done("pay", slot[r].in, 400, "Transaction has been used before")]
                /\ orders' = OrderSave(slot[r].in.order_id,
                        MarkedPaid(slot[r].order, slot[r].in.payment_id, utcnow))
           ELSE /\ slot' = [slot EXCEPT ![r].pc = "verify"]
                /\ orders' = orders
    /\ UNCHANGED <<reviews, products, calls>>

\* lines 152-158: the transaction ledger guard
update_order_to_paid_fresh(r) ==
    /\ slot[r].op = "pay" /\ slot[r].pc = "fresh"
    /\ LET is_new == check_if_new_transaction(slot[r].in.payment_id)
       IN  IF ~is_new
           THEN slot' = [slot EXCEPT ![r] =
                    Done("pay", slot[r].in, 400, "Transaction has been used before")]
           ELSE slot' = [slot EXCEPT ![r].pc = "verify"]
    /\ UNCHANGED <<reviews, orders, products, calls>>

\* lines 160-189: the provider's answer, the amount comparison (whose result
\* nothing reads), and the in-memory order marked paid
update_order_to_paid_verify(r) ==
    /\ slot[r].op = "pay" /\ slot[r].pc = "verify"
    /\ \E answer \in ProviderAnswers(slot[r].order.total_price) :
        LET order == slot[r].order
            value == IF ~answer.verified THEN order.total_price ELSE answer.value
            paid_correct_amount ==
                IF answer.raised THEN None ELSE Some(order.total_price = value)
        IN  slot' = [slot EXCEPT ![r] =
                [op |-> "pay", pc |-> "save", in |-> slot[r].in,
                 paid_correct_amount |-> paid_correct_amount,
                 order |-> MarkedPaid(order, slot[r].in.payment_id, utcnow)]]
    /\ UNCHANGED <<reviews, orders, products, calls>>

\* lines 191-197: order.save(), or the store's failure answered with 500
update_order_to_paid_save(r) ==
    /\ slot[r].op = "pay" /\ slot[r].pc = "save"
    /\ \/ /\ orders' = OrderSave(slot[r].in.order_id, slot[r].order)
          /\ slot' = [slot EXCEPT ![r] =
                [op |-> "pay", pc |-> "reload", in |-> slot[r].in]]
       \/ /\ orders' = orders
          /\ slot' = [slot EXCEPT ![r] =
                Done("pay", slot[r].in, 500, "Failed to update order")]
    /\ UNCHANGED <<reviews, products, calls>>

\* lines 199-201: the order read again and returned
update_order_to_paid_reload(r) ==
    /\ slot[r].op = "pay" /\ slot[r].pc = "reload"
    /\ slot' = [slot EXCEPT ![r] = Done("pay", slot[r].in, 200, "")]
    /\ UNCHANGED <<reviews, orders, products, calls>>

----------------------------------------------------------------------------
(* PUT /api/orders/{order_id}/deliver : update_order_to_delivered *)

\* lines 226-227: the in-memory order marked delivered
MarkedDelivered(order, t) ==
    [order EXCEPT !.is_delivered = TRUE, !.delivered_at = Some(t)]

\* require_admin, Order.get, and the in-memory order marked delivered
update_order_to_delivered_load(r, w) ==
    \E caller \in w.callers, order_id \in OrderIds :
        LET in == [caller |-> caller, order_id |-> order_id]
            order == OrderGet(order_id)
        IN  /\ Accept(r, w)
            /\ IF IsNone(require_admin(caller))
               THEN slot' = [slot EXCEPT ![r] = Rejected("deliver", 401, unauthorized_detail(caller))]
               ELSE IF IsNone(order)
               THEN slot' = [slot EXCEPT ![r] = Done("deliver", in, 404, "Order not found")]
               ELSE slot' = [slot EXCEPT ![r] =
                        [op |-> "deliver", pc |-> "save", in |-> in,
                         order |-> MarkedDelivered(Get(order), utcnow')]]
            /\ UNCHANGED <<reviews, orders, products>>

\* order.save() and the response
update_order_to_delivered_save(r) ==
    /\ slot[r].op = "deliver" /\ slot[r].pc = "save"
    /\ orders' = OrderSave(slot[r].in.order_id, slot[r].order)
    /\ slot' = [slot EXCEPT ![r] = Done("deliver", slot[r].in, 200, "")]
    /\ UNCHANGED <<reviews, products, calls>>

----------------------------------------------------------------------------
(* PUT /api/products/{product_id} : update_product *)

\* require_admin, Product.get, and the fields of the request copied over
update_product_load(r, w) ==
    \E caller \in w.callers, product_id \in ClientProductIds, price \in w.prices :
        LET in == [product_id |-> product_id]
        IN  /\ Accept(r, w)
            /\ IF IsNone(require_admin(caller))
               THEN slot' = [slot EXCEPT ![r] = Rejected("product", 401, unauthorized_detail(caller))]
               ELSE IF product_id \notin DOMAIN products
               THEN slot' = [slot EXCEPT ![r] = Rejected("product", 404, "Product not found")]
               ELSE slot' = [slot EXCEPT ![r] =
                        [op |-> "product", pc |-> "save", in |-> in,
                         product |-> IF IsNone(price) THEN products[product_id]
                                     ELSE [products[product_id] EXCEPT !.price = Get(price)]]]
            /\ UNCHANGED <<reviews, orders, products>>

\* product.save() and the response
update_product_save(r) ==
    /\ slot[r].op = "product" /\ slot[r].pc = "save"
    /\ products' = [products EXCEPT ![slot[r].in.product_id] = slot[r].product]
    /\ slot' = [slot EXCEPT ![r] = Done("product", slot[r].in, 200, "")]
    /\ UNCHANGED <<reviews, orders, calls>>

----------------------------------------------------------------------------
(* POST /api/products/{product_id}/reviews : create_product_review.  A     *)
(* product's reviews are links to documents of the reviews collection; its *)
(* rating is kept as <<sum of the ratings, number of ratings>>.            *)

\* lines 217-220: one of the product's reviews is by the user
already_reviewed(product, user) ==
    \E i \in 1..Len(product.reviews) : reviews[product.reviews[i]].user = user

RECURSIVE SumRatings(_)
SumRatings(ids) ==
    IF ids = <<>> THEN 0 ELSE reviews[Head(ids)].rating + SumRatings(Tail(ids))

\* lines 200-233: authentication, Product.get, the already-reviewed check
create_product_review_load(r, w) ==
    \E caller \in w.callers, product_id \in ClientProductIds, rating \in Ratings :
        LET in == [caller |-> caller, product_id |-> product_id, rating |-> rating]
            user == get_current_user(caller)
        IN  /\ Accept(r, w)
            /\ IF IsNone(user)
               THEN slot' = [slot EXCEPT ![r] = Rejected("review", 401, "Not authorized, no token")]
               ELSE IF product_id \notin DOMAIN products
               THEN slot' = [slot EXCEPT ![r] = Done("review", in, 404, "Product not found")]
               ELSE IF already_reviewed(products[product_id], Get(user))
               THEN slot' = [slot EXCEPT ![r] = Done("review", in, 400, "Product already reviewed")]
               ELSE slot' = [slot EXCEPT ![r] =
                        [op |-> "review", pc |-> "insert", in |-> in,
                         review |-> [user |-> Get(user), rating |-> rating]]]
            /\ UNCHANGED <<orders, products, reviews>>

\* line 235: review.insert()
create_product_review_insert(r) ==
    /\ slot[r].op = "review" /\ slot[r].pc = "insert"
    /\ reviews' = Append(reviews, slot[r].review)
    /\ slot' = [slot EXCEPT ![r] =
            [op |-> "review", pc |-> "get", in |-> slot[r].in,
             review |-> slot[r].review, review_id |-> Len(reviews) + 1]]
    /\ UNCHANGED <<orders, products, calls>>

\* lines 237-249: Product.get, the review appended to the links read, and
\* num_reviews set to their number
create_product_review_get(r) ==
    /\ slot[r].op = "review" /\ slot[r].pc = "get"
    /\ LET product_with_links == products[slot[r].in.product_id]
           new_reviews_list == Append(product_with_links.reviews, slot[r].review_id)
       IN  slot' = [slot EXCEPT ![r] =
                [op |-> "review", pc |-> "fetch", in |-> slot[r].in,
                 review |-> slot[r].review, review_id |-> slot[r].review_id,
                 product |-> [product_with_links EXCEPT
                                !.reviews = new_reviews_list,
                                !.num_reviews = Len(new_reviews_list)]]]
    /\ UNCHANGED <<orders, products, reviews, calls>>

\* lines 251-255: Product.get with the links fetched, and the rating
create_product_review_fetch(r) ==
    /\ slot[r].op = "review" /\ slot[r].pc = "fetch"
    /\ LET product_fetched == products[slot[r].in.product_id]
           total_rating == SumRatings(product_fetched.reviews) + slot[r].review.rating
       IN  slot' = [slot EXCEPT ![r].pc = "save",
                                ![r].product.rating =
                                    IF product_fetched.reviews # <<>>
                                    THEN <<total_rating, Len(product_fetched.reviews) + 1>>
                                    ELSE @]
    /\ UNCHANGED <<orders, products, reviews, calls>>

\* lines 257-259: product_with_links.save() and the response
create_product_review_save(r) ==
    /\ slot[r].op = "review" /\ slot[r].pc = "save"
    /\ products' = [products EXCEPT ![slot[r].in.product_id] = slot[r].product]
    /\ slot' = [slot EXCEPT ![r] = Done("review", slot[r].in, 201, "Review added")]
    /\ UNCHANGED <<orders, reviews, calls>>

----------------------------------------------------------------------------
\* the response is sent and the slot is free again
respond(r) ==
    /\ slot[r].op # "idle" /\ slot[r].pc = "done"
    /\ slot' = [slot EXCEPT ![r] = Idle]
    /\ UNCHANGED <<reviews, orders, products, calls>>

\* the order lifecycle: orders are created, paid and delivered
Next ==
    \E r \in Req :
        \/ add_order_items_find(r, Lifecycle)
        \/ add_order_items_save(r)
        \/ update_order_to_paid_load(r, Lifecycle)
        \/ update_order_to_paid_fresh(r)
        \/ update_order_to_paid_verify(r)
        \/ update_order_to_paid_save(r)
        \/ update_order_to_paid_reload(r)
        \/ update_order_to_delivered_load(r, Lifecycle)
        \/ update_order_to_delivered_save(r)
        \/ respond(r)

Spec == Init /\ [][Next]_vars

\* pricing: orders are created from the catalog while its prices change
NextPricing ==
    \E r \in Req :
        \/ add_order_items_find(r, Pricing)
        \/ add_order_items_save(r)
        \/ update_product_load(r, Pricing)
        \/ update_product_save(r)
        \/ update_order_to_paid_load(r, Pricing)
        \/ update_order_to_paid_fresh(r)
        \/ update_order_to_paid_verify(r)
        \/ update_order_to_paid_save(r)
        \/ update_order_to_paid_reload(r)
        \/ update_order_to_delivered_load(r, Pricing)
        \/ update_order_to_delivered_save(r)
        \/ respond(r)

SpecPricing == Init /\ [][NextPricing]_vars

\* reviews: products are reviewed
NextReviews ==
    \E r \in Req :
        \/ create_product_review_load(r, Reviewing)
        \/ create_product_review_insert(r)
        \/ create_product_review_get(r)
        \/ create_product_review_fetch(r)
        \/ create_product_review_save(r)
        \/ respond(r)

SpecReviews == Init /\ [][NextReviews]_vars

----------------------------------------------------------------------------
(* What the claims read *)

\* request r is a markPaid call that has answered with the given status
PayDone(r, code) ==
    slot[r].op = "pay" /\ slot[r].pc = "done" /\ slot[r].status = code

\* request r is a markPaid call that has answered with the given rejection
PayRejected(r, detail) ==
    PayDone(r, 400) /\ slot[r].detail = detail

HasPayment(o) == ~IsNone(o.payment_result)

----------------------------------------------------------------------------
\* C1: of two markPaid calls for the same order that are served at the same
\* time, at most one answers with success (200).
C1_OnePaySucceeds ==
    \A r1, r2 \in Req :
        (r1 # r2 /\ PayDone(r1, 200) /\ PayDone(r2, 200))
            => slot[r1].in.order_id # slot[r2].in.order_id

\* C2: no two distinct orders carry a payment_result with the same
\* transaction id.
C2_TransactionIdUnique ==
    \A i, j \in DOMAIN orders :
        (i # j /\ HasPayment(orders[i]) /\ HasPayment(orders[j]))
            => Get(orders[i].payment_result).id # Get(orders[j].payment_result).id

\* C3: the save of a markPaid call whose provider-reported amount differs
\* from the order's total_price leaves an unpaid order unpaid.
C3_MismatchNotPaid ==
    [][\A r \in Req :
        IF slot[r].op = "pay" /\ slot[r].pc = "save"
        THEN (/\ slot[r].paid_correct_amount = Some(FALSE)
              /\ slot'[r].pc # "save"
              /\ ~orders[slot[r].in.order_id].is_paid)
                => ~orders'[slot[r].in.order_id].is_paid
        ELSE TRUE]_vars

\* C4: every stored order that is delivered is paid.
C4_DeliveredImpliesPaid ==
    \A i \in DOMAIN orders : orders[i].is_delivered => orders[i].is_paid

\* C5: a stored order that is paid stays paid, with the same paid_at and
\* payment_result, and a stored order that is delivered stays delivered.
C5_NeverLeavesPaidOrDelivered ==
    [][\A i \in DOMAIN orders :
        /\ orders[i].is_paid =>
            /\ orders'[i].is_paid
            /\ orders'[i].paid_at = orders[i].paid_at
            /\ orders'[i].payment_result = orders[i].payment_result
        /\ orders[i].is_delivered => orders'[i].is_delivered]_vars

----------------------------------------------------------------------------
\* C6: a stored order is paid exactly when it has a payment_result.
C6_PaidIffPaymentResult ==
    \A i \in DOMAIN orders : orders[i].is_paid <=> HasPayment(orders[i])

\* a stored order is paid and has its payment_result, next to an unpaid one
C6_Witness ==
    \E i, j \in DOMAIN orders :
        /\ orders[i].is_paid /\ HasPayment(orders[i])
        /\ ~orders[j].is_paid /\ ~HasPayment(orders[j])

\* C7: a markPaid call that carries a payment id and finds the order paid
\* when it loads it answers 400 "Order is already paid" and writes nothing.
C7_ReplayRejected ==
    [][\A r \in Req :
        IF slot[r].pc = "idle" /\ slot'[r].op = "pay"
        THEN IF slot'[r].pc = "done" /\ slot'[r].status = 401
             THEN TRUE
             ELSE (/\ slot'[r].in.payment_id # ""
                   /\ slot'[r].in.order_id \in DOMAIN orders
                   /\ orders[slot'[r].in.order_id].is_paid)
                    => /\ slot'[r] = Done("pay", slot'[r].in, 400, "Order is already paid")
                       /\ orders' = orders
        ELSE TRUE]_vars

\* a retry with the payment id the order was paid with has been rejected and
\* the order still carries the payment of the first call
C7_Witness ==
    \E r \in Req :
        /\ PayRejected(r, "Order is already paid")
        /\ orders[slot[r].in.order_id].is_paid
        /\ HasPayment(orders[slot[r].in.order_id])
        /\ Get(orders[slot[r].in.order_id].payment_result).id = slot[r].in.payment_id

\* C8: a step in which a markPaid call answers 400 or 404, or a
\* markDelivered call answers 404, leaves the orders collection as it was.
C8_RejectedWritesNothing ==
    [][\A r \in Req :
        (/\ slot[r].pc # "done" /\ slot'[r].pc = "done"
         /\ \/ slot'[r].op = "pay" /\ slot'[r].status \in {400, 404}
            \/ slot'[r].op = "deliver" /\ slot'[r].status = 404)
            => orders' = orders]_vars

\* a markPaid call has been rejected for a used transaction id while a
\* markDelivered call has been rejected for an unknown order
C8_Witness ==
    \E r1, r2 \in Req :
        /\ PayRejected(r1, "Transaction has been used before")
        /\ slot[r2].op = "deliver" /\ slot[r2].pc = "done" /\ slot[r2].status = 404

----------------------------------------------------------------------------
\* the amounts of an order
Totals(o) == <<o.items_price, o.tax_price, o.shipping_price, o.total_price>>

\* C9: the order a create builds prices every line item at the catalog price
\* read by that call, whatever price the client submitted; the order is
\* stored as built; and no step changes the line items or the amounts of a
\* stored order.
C9_PricesFromCatalogAndFrozen ==
    [][/\ \A r \in Req :
            (slot[r].pc = "idle" /\ slot'[r].op = "create" /\ slot'[r].pc = "save")
                => (LET cart == slot'[r].in.cart
                        items == slot'[r].order.order_items
                    IN  /\ Len(items) = Len(cart)
                        /\ \A i \in 1..Len(cart) :
                             /\ items[i].product = cart[i].product
                             /\ items[i].qty = cart[i].qty
                             /\ items[i].price = products[cart[i].product].price)
        /\ \A q \in Req :
            (slot[q].op = "create" /\ slot[q].pc = "save" /\ slot'[q].pc = "done")
                => (/\ Len(orders') = Len(orders) + 1
                    /\ orders'[Len(orders')] = slot[q].order)
        /\ \A i \in DOMAIN orders :
            /\ i \in DOMAIN orders'
            /\ orders'[i].order_items = orders[i].order_items
            /\ Totals(orders'[i]) = Totals(orders[i])]_vars

\* an order created from a cart with a price of the client's own has been
\* paid after the catalog price changed, and still carries the catalog price
\* of its creation
C9_Witness ==
    \E r \in Req :
        /\ slot[r].op = "create" /\ slot[r].pc = "done" /\ slot[r].status = 201
        /\ LET o == orders[slot[r].order_id]
               cart == slot[r].in.cart
           IN  /\ o.is_paid
               /\ o.order_items[1].price # cart[1].price
               /\ o.order_items[1].price # products[cart[1].product].price
               /\ o.order_items[1].price = 1000

\* a stored order of one line item at catalog price 10.00
OneItemAt1000(o, qty) ==
    /\ Len(o.order_items) = 1
    /\ o.order_items[1].qty = qty
    /\ o.order_items[1].price = 1000

----------------------------------------------------------------------------
\* the slot holds an in-memory copy of an order
HasCopy(s) ==
    \/ s.op = "pay" /\ s.pc \in {"fresh", "verify", "save"}
    \/ s.op = "deliver" /\ s.pc = "save"

\* the slot holds an in-memory copy of an order that is marked delivered
HasDeliveredCopy(s) == HasCopy(s) /\ s.order.is_delivered

IsAdminCaller(caller) == caller # "anon" /\ Users[caller].is_admin

\* C11: a markDelivered request that is not answered 401 on arrival comes
\* from an admin, and a request that is answered 401 has loaded no order and
\* written nothing; an in-memory order becomes delivered only in an admin's
\* markDelivered call (any other copy that is delivered was loaded from a
\* stored order that was); and a stored order becomes delivered, or changes
\* its delivered_at, only by the save of such a copy.
C11_DeliveredOnlyByAdmin ==
    [][/\ \A r \in Req :
            (slot[r].pc = "idle" /\ slot'[r].op = "deliver")
                => (IF slot'[r].pc = "done" /\ slot'[r].status = 401
                    THEN orders' = orders
                    ELSE IsAdminCaller(slot'[r].in.caller))
        /\ \A p \in Req :
            (HasDeliveredCopy(slot'[p]) /\ ~HasDeliveredCopy(slot[p]))
                => (\/ /\ slot'[p].op = "deliver"
                       /\ IsAdminCaller(slot'[p].in.caller)
                    \/ /\ slot[p].pc = "idle"
                       /\ slot'[p].in.order_id \in DOMAIN orders
                       /\ orders[slot'[p].in.order_id].is_delivered)
        /\ \A i \in DOMAIN orders' :
            (\/ i \notin DOMAIN orders
             \/ ~orders[i].is_delivered /\ orders'[i].is_delivered
             \/ orders[i].delivered_at # orders'[i].delivered_at)
                => (\/ /\ ~orders'[i].is_delivered
                       /\ IsNone(orders'[i].delivered_at)
                    \/ \E q \in Req :
                        /\ HasDeliveredCopy(slot[q])
                        /\ slot[q].in.order_id = i
                        /\ slot'[q] # slot[q]
                        /\ orders'[i] = slot[q].order)]_vars

\* an anonymous markDelivered request has been answered 401 and an admin's
\* has delivered the order
C11_Witness ==
    \E r1, r2 \in Req :
        /\ slot[r1] = Rejected("deliver", 401, "Not authorized, no token")
        /\ slot[r2].op = "deliver" /\ slot[r2].pc = "done" /\ slot[r2].status = 200
        /\ IsAdminCaller(slot[r2].in.caller)
        /\ orders[slot[r2].in.order_id].is_delivered

----------------------------------------------------------------------------
\* a review request has inserted its review and not yet saved the product
ReviewInFlight ==
    \E r \in Req : slot[r].op = "review" /\ slot[r].pc \in {"get", "fetch", "save"}

RECURSIVE SumNumReviews(_)
SumNumReviews(ps) ==
    IF ps = {} THEN 0
    ELSE LET p == CHOOSE x \in ps : TRUE
         IN  products[p].num_reviews + SumNumReviews(ps \ {p})

\* C12: no product lists two reviews by the same user; and once every
\* accepted review request has saved, every review that was inserted is
\* listed by a product, and the products' num_reviews add up to the number
\* of reviews inserted.
C12_OneReviewPerUser ==
    /\ \A p \in DOMAIN products :
        \A i, j \in 1..Len(products[p].reviews) :
            i # j => reviews[products[p].reviews[i]].user
                        # reviews[products[p].reviews[j]].user
    /\ ~ReviewInFlight =>
        /\ \A id \in DOMAIN reviews :
            \E p \in DOMAIN products :
                \E i \in 1..Len(products[p].reviews) : products[p].reviews[i] = id
        /\ SumNumReviews(DOMAIN products) = Len(reviews)

====
